---- MODULE Spec2Model ----
(***************************************************************************)
(* Model of visual_nav/dqn.py: the Trainer (training driver) of a DQN      *)
(* agent.  One sequential process runs main(): either test(), or           *)
(* imitation_learning() followed by reinforcement_learning().  The         *)
(* environment, the demonstrator policy and the neural value function are  *)
(* external: their results are nondeterministic choices from small sets.   *)
(* The ReplayBuffer (visual_nav/utils/replay_buffer.py) is not part of the *)
(* sources at hand; it is modelled from its documented contract.           *)
(*                                                                         *)
(* Spec is the run of main().  FairSpec is the same run of a process that  *)
(* does not stop while it has a step to take.  FnSpec calls, on drawn      *)
(* arguments, the parts of the Trainer that the run abstracts: the         *)
(* arithmetic of _td_update, the stacked observation of the                *)
(* episode-batched loop and the selection of actions.                      *)
(***************************************************************************)
EXTENDS Integers, Sequences, FiniteSets

(***************************************************************************)
(* Bounds of the model.                                                    *)
(***************************************************************************)
\* an episode of the environment ends at the latest after MaxEpLen steps
MaxEpLen == 2
\* replay_buffer_size is drawn from 1..MaxBufferSize
MaxBufferSize == 2
\* num_test_case is drawn from 1..MaxTestCase
MaxTestCase == 2
\* num_timesteps is drawn from 0..MaxTimesteps
MaxTimesteps == 1
\* frame_history_len is drawn from 1..MaxFrameHistory
MaxFrameHistory == 4
\* the stacked observations of MaxStackEpisodes episodes of up to MaxFrames
\* steps are built
MaxStackEpisodes == 2
MaxFrames == 5
\* the actions of the first MaxSelectSteps steps of reinforcement_learning
\* are selected
MaxSelectSteps == 3

(***************************************************************************)
(* Constants of the program, scaled down so that a run is finite and       *)
(* small: the source's values are 50000, 1000000, 1000, 100000 (num_train_ *)
(* batch of the Monte-Carlo variant), 10000 and 100000.                    *)
(***************************************************************************)
demonstrate_steps == 2
num_train_batch == 2
num_episodes == 2
mc_num_train_batch == 2
log_every_n_steps == 2
TestBufferSize == 3

\* the action indices, 0 .. env.action_space.n - 1
Actions == {0, 1}
\* the rewards the environment hands out
Rewards == {0, 1}
Infos == {"Success", "Collision", "Timeout"}
Updates == {"td", "mc", "other"}
\* the values batch_size, target_update_freq, learning_starts and
\* learning_freq are drawn from
BatchSizes == {1, 2}
TargetUpdateFreqs == {2}
LearningStarts == {0, 1}
LearningFreqs == {1, 2}
\* gamma = num/den; env.unwrapped.time_step as a whole number of units
Gammas == {<<1, 2>>}
TimeSteps == {1}

Min(a, b) == IF a < b THEN a ELSE b
Max(a, b) == IF a > b THEN a ELSE b

RECURSIVE Pow(_, _)
Pow(b, e) == IF e = 0 THEN 1 ELSE b * Pow(b, e - 1)

(***************************************************************************)
(* Observations, effects, parameters.                                      *)
(***************************************************************************)
\* an observation is named by the call that returned it
NoObs == <<"none", 0>>
ResetObs(n) == <<"reset", n>>
StepObs(n) == <<"step", n>>
NoEffect == [action |-> -1, reward |-> 0, done |-> FALSE]
NoValue == 0 - 1
\* the locals of a function that has not been called
NotCalled == [called |-> FALSE]
NoIdx == 0 - 1

\* a parameter vector is named by where it came from and the number of
\* optimizer steps applied to it since
InitQ == <<"init_Q", 0>>
InitTargetQ == <<"init_target_Q", 0>>
IlFile == <<"il_model.pth", 0>>
RlFile == <<"rl_model.pth", 0>>
OptimizerStep(params) == <<params[1], params[2] + 1>>

(***************************************************************************)
(* ReplayBuffer, from its contract.                                        *)
(***************************************************************************)
NewBuffer(capacity) ==
    [size |-> capacity,
     obs |-> [i \in 0 .. (capacity - 1) |-> NoObs],
     effect |-> [i \in 0 .. (capacity - 1) |-> NoEffect],
     value |-> [i \in 0 .. (capacity - 1) |-> NoValue],
     next_idx |-> 0,
     num_in_buffer |-> 0]

\* store_observation: write at the cursor, advance it, return the written index
StoreObservationIdx(b) == b.next_idx
StoreObservation(b, o) ==
    [b EXCEPT !.obs[b.next_idx] = o,
              !.effect[b.next_idx] = NoEffect,
              !.next_idx = (b.next_idx + 1) % b.size,
              !.num_in_buffer = Min(b.size, b.num_in_buffer + 1)]

\* store_effect fails unless idx is a live, yet-uncompleted slot
StoreEffectOk(b, idx) ==
    /\ idx \in 0 .. (b.size - 1)
    /\ b.obs[idx] # NoObs
    /\ b.effect[idx] = NoEffect
StoreEffect(b, idx, a, r, d) ==
    [b EXCEPT !.effect[idx] = [action |-> a, reward |-> r, done |-> d]]

StoreValue(b, idx, v) == [b EXCEPT !.value[idx] = v]

\* slots holding an observation whose effect is not yet written
Pending(b) == {i \in 0 .. (b.size - 1) : b.obs[i] # NoObs /\ b.effect[i] = NoEffect}
\* the most recently written slot
LastWritten(b) == (b.next_idx + b.size - 1) % b.size
\* completed transitions with a defined successor
ValidIdx(b) ==
    {i \in 0 .. (b.num_in_buffer - 1) : b.effect[i] # NoEffect /\ i # LastWritten(b)}
CanSample(b, n) == Cardinality(ValidIdx(b)) >= n


(***************************************************************************)
(* The environment (external).                                             *)
(***************************************************************************)
NewEnv == [total_steps |-> 0, ep_len |-> 0, resets |-> 0]
\* env.reset(): a new episode; returns its first observation
EnvReset(e) == [e EXCEPT !.resets = @ + 1, !.ep_len = 0]
EnvResetObs(e) == ResetObs(e.resets + 1)
\* env.step(action): one more step; returns (obs, reward, done, info)
EnvStep(e) == [e EXCEPT !.total_steps = @ + 1, !.ep_len = @ + 1]
EnvStepObs(e) == StepObs(e.total_steps + 1)
StepOutcomes(e) ==
    {o \in [reward : Rewards, done : BOOLEAN, info : Infos \cup {"Nothing"}] :
        /\ o.done <=> (o.info \in Infos)
        /\ (e.ep_len + 1 >= MaxEpLen) => o.done}

\* AfterStep without the reset at an episode's end
AfterStep_NoReset(e, d) == [env |-> EnvStep(e), obs |-> EnvStepObs(e)]

\* lines 137-147, 169-178, 268-275: env.step, then env.reset when done; the
\* environment afterwards and the observation carried to the next iteration
AfterStep(e, d) ==
    IF d
    THEN [env |-> EnvReset(EnvStep(e)), obs |-> EnvResetObs(EnvStep(e))]
    ELSE [env |-> EnvStep(e), obs |-> EnvStepObs(e)]

(***************************************************************************)
(* Actions: env.unwrapped.actions, Trainer.action_dict,                    *)
(* Trainer._approximate_action and Trainer.act.                            *)
(***************************************************************************)
\* env.unwrapped.actions[i], the action of index i, as a point on a line
EnvAction(i) == 2 * i
\* the raw actions policy.predict may demonstrate
Demonstrations == {0, 1, 2, 3}
\* index = -1 and target_action = None, and min_diff = float('inf')
NoAction == 0 - 1
NoDiff == 0 - 1
Abs(x) == IF x < 0 THEN 0 - x ELSE x

\* lines 198-210: the loop of _approximate_action after the first n items of
\* action_dict, which are the actions of index 0 .. n-1 in that order
RECURSIVE ApproximateUpTo(_, _)
ApproximateUpTo(demonstration, n) ==
    IF n = 0
    THEN [min_diff |-> NoDiff, target_action |-> NoAction, index |-> NoAction]
    ELSE LET prev == ApproximateUpTo(demonstration, n - 1)
             i == n - 1
             diff == Abs(EnvAction(i) - demonstration)
         IN  IF prev.min_diff = NoDiff \/ diff < prev.min_diff
             THEN [min_diff |-> diff, target_action |-> EnvAction(i), index |-> i]
             ELSE prev

\* _approximate_action returning the index of the last action examined
ApproximateAction_LastIndex(demonstration) ==
    [ApproximateUpTo(demonstration, Cardinality(Actions))
        EXCEPT !.index = Cardinality(Actions) - 1]

\* lines 196-212: (target_action, index) of the action closest to the
\* demonstration
ApproximateAction(demonstration) ==
    ApproximateUpTo(demonstration, Cardinality(Actions))

\* the outputs of self.Q for one observation, one value per action
ActQValues == {<<0, 1>>, <<1, 0>>, <<1, 1>>}

\* act choosing among all actions
Act_Any(q) == Actions

\* lines 383-386: the indices max(1)[1] may return, those of a largest output
Act(q) == {a \in Actions : \A b \in Actions : q[b + 1] <= q[a + 1]}

\* what env.step received: an index (action.item()) or an action (action_rot)
IndexArg(a) == <<"index", a>>
RotArg(r) == <<"rot", r>>
NotStepped == [arg |-> <<"none", 0>>, q |-> <<>>]
\* the action the environment executes for an argument of env.step
Executed(arg) == IF arg[1] = "index" THEN EnvAction(arg[2]) ELSE arg[2]

(***************************************************************************)
(* State.                                                                  *)
(***************************************************************************)
VARIABLES
    pc,                 \* position of the process
    error,              \* the exception that ended the run, if any
    \* Trainer fields
    batch_size, target_update_freq, num_test_case, gamma, time_step,
    Q, target_Q, num_param_updates, replay_buffer,
    env,
    \* arguments of reinforcement_learning
    learning_starts, learning_freq, num_timesteps, episode_update,
    \* locals
    obs, last_obs, last_idx, done, info, t, step, train_i,
    episodes, indices, rewards, value, mc_i,
    observations, effects, commit_i,
    test_buffer, test_i,
    \* history: env.get_total_steps() at the last learning step, -1 before any
    last_update_at,
    \* history: the values of t at which the statistics were exported (line 366)
    log_writes,
    \* history: the argument of the latest env.step and, when act chose it,
    \* the outputs of self.Q it was chosen from
    stepped,
    \* the locals of one _td_update, of one stacked observation of the
    \* episode-batched loop, and of the action selection
    td, stack, sel

trainer == <<batch_size, target_update_freq, num_test_case, gamma, time_step>>
params == <<Q, target_Q, num_param_updates, last_update_at>>
rlargs == <<learning_starts, learning_freq, num_timesteps, episode_update>>
mcvars == <<episodes, indices, rewards, value, mc_i>>
epvars == <<observations, effects, commit_i, info>>
testvars == <<test_buffer, test_i>>
fnvars == <<td, stack, sel>>
vars == <<pc, error, trainer, stepped, params, replay_buffer, env, rlargs, obs, last_obs,
          last_idx, done, t, step, train_i, mcvars, epvars, testvars, log_writes,
          stepped, fnvars>>

\* The process is about to run main(); no Trainer exists yet.
Init ==
    /\ pc = "main"
    /\ error = "none"
    /\ batch_size = 1
    /\ target_update_freq = 1
    /\ num_test_case = 1
    /\ gamma \in Gammas
    /\ time_step \in TimeSteps
    /\ Q = InitQ
    /\ target_Q = InitTargetQ
    /\ num_param_updates = 0
    /\ replay_buffer = NewBuffer(1)
    /\ env = NewEnv
    /\ learning_starts = 0
    /\ learning_freq = 1
    /\ num_timesteps = 0
    /\ episode_update = FALSE
    /\ obs = NoObs
    /\ last_obs = NoObs
    /\ last_idx = NoIdx
    /\ done = FALSE
    /\ info = "Nothing"
    /\ t = 0
    /\ step = 0
    /\ train_i = 0
    /\ episodes = 0
    /\ indices = <<>>
    /\ rewards = <<>>
    /\ value = NoValue
    /\ mc_i = 0
    /\ observations = <<>>
    /\ effects = <<>>
    /\ commit_i = 0
    /\ test_buffer = NewBuffer(1)
    /\ test_i = 0
    /\ last_update_at = -1
    /\ log_writes = {}
    /\ stepped = NotStepped
    /\ td = NotCalled
    /\ stack = NotCalled
    /\ sel = NotCalled

\* an exception ends the run
Raise(e) == pc' = "crashed" /\ error' = e

(***************************************************************************)
(* Learning steps.                                                         *)
(***************************************************************************)
\* LearningStep with the sync test made on the count before the increment
LearningStep_SyncBeforeCount ==
    /\ Q' = OptimizerStep(Q)
    /\ num_param_updates' = num_param_updates + 1
    /\ target_Q' = IF num_param_updates % target_update_freq = 0
                   THEN OptimizerStep(Q)
                   ELSE target_Q
    /\ last_update_at' = env.total_steps

\* lines 432-438 and 455-461: optimizer step, count it, periodic hard copy
LearningStep ==
    /\ Q' = OptimizerStep(Q)
    /\ num_param_updates' = num_param_updates + 1
    /\ target_Q' = IF (num_param_updates + 1) % target_update_freq = 0
                   THEN OptimizerStep(Q)
                   ELSE target_Q
    /\ last_update_at' = env.total_steps

\* _td_update: sample a batch (fails when the buffer cannot supply it), then learn
td_update(next) ==
    IF CanSample(replay_buffer, batch_size)
    THEN LearningStep /\ pc' = next /\ error' = error
    ELSE Raise("InsufficientDataError") /\ UNCHANGED params

\* _mc_update: the same with sample(with_value=True)
mc_update(next) ==
    IF CanSample(replay_buffer, batch_size)
    THEN LearningStep /\ pc' = next /\ error' = error
    ELSE Raise("InsufficientDataError") /\ UNCHANGED params

\* LoadWeights with the live function loaded alone
LoadWeights_LiveOnly(file) ==
    /\ Q' = file
    /\ UNCHANGED <<target_Q, num_param_updates, last_update_at>>

\* load_il_weights / load_rl_weights when the file exists
LoadWeights(file) ==
    /\ Q' = file
    /\ target_Q' = file
    /\ UNCHANGED <<num_param_updates, last_update_at>>


(***************************************************************************)
(* main()                                                                  *)
(***************************************************************************)
\* lines 484-561: parse the command line, construct the Trainer (lines
\* 79-102), then test_il / test_rl load weights (when the file is there) and
\* test; otherwise imitation learning (with --with_il) and then reinforcement
\* learning.  Parameters the chosen branch never reads are left as they are:
\* test() reads neither batch_size, target_update_freq nor the training
\* buffer, and only test() reads num_test_case.
Main ==
    /\ pc = "main"
    /\ \E test \in BOOLEAN :
        IF test
        THEN /\ pc' = "test"
             /\ num_test_case' \in 1 .. MaxTestCase
             /\ \E file \in {IlFile, RlFile}, exists \in BOOLEAN :
                    IF exists THEN LoadWeights(file) ELSE UNCHANGED params
             /\ UNCHANGED <<batch_size, target_update_freq, replay_buffer>>
        ELSE /\ pc' \in {"il", "rl"}
             /\ batch_size' \in BatchSizes
             /\ target_update_freq' \in TargetUpdateFreqs
             /\ \E capacity \in 1 .. MaxBufferSize :
                    replay_buffer' = NewBuffer(capacity)
             /\ UNCHANGED <<num_test_case, params>>
    /\ UNCHANGED <<error, gamma, time_step, stepped, env, rlargs, obs, last_obs, last_idx,
                   done, t, step, train_i, mcvars, epvars, testvars, log_writes, fnvars>>

(***************************************************************************)
(* Trainer.test                                                            *)
(***************************************************************************)
\* lines 215-216: a fresh buffer of its own
Test ==
    /\ pc = "test"
    /\ test_buffer' = NewBuffer(TestBufferSize)
    /\ test_i' = 0
    /\ pc' = "test_case"
    /\ UNCHANGED <<error, trainer, log_writes, stepped, fnvars, params, replay_buffer, env, rlargs, obs, last_obs,
                   last_idx, done, t, step, train_i, mcvars, epvars>>

\* lines 218-220, 233: next test case, or the summary after the last
TestCase ==
    /\ pc = "test_case"
    /\ IF test_i < num_test_case
       THEN /\ env' = EnvReset(env)
            /\ obs' = EnvResetObs(env)
            /\ done' = FALSE
            /\ pc' = "test_store"
       ELSE /\ pc' = "done"
            /\ UNCHANGED <<env, obs, done>>
    /\ UNCHANGED <<error, trainer, log_writes, stepped, fnvars, params, replay_buffer, rlargs, last_obs, last_idx,
                   t, step, train_i, mcvars, epvars, testvars>>

\* lines 222-223
TestStoreObservation ==
    /\ pc = "test_store"
    /\ last_idx' = StoreObservationIdx(test_buffer)
    /\ test_buffer' = StoreObservation(test_buffer, obs)
    /\ pc' = "test_step"
    /\ UNCHANGED <<error, trainer, log_writes, stepped, fnvars, params, replay_buffer, env, rlargs, obs, last_obs,
                   done, t, step, train_i, mcvars, epvars, test_i>>

\* lines 224-231: greedy action, step, store_effect; info is never read
TestStep ==
    /\ pc = "test_step"
    /\ \E q \in ActQValues : \E action \in Act(q), o \in StepOutcomes(env) :
        /\ stepped' = [arg |-> IndexArg(action), q |-> q]
        /\ env' = EnvStep(env)
        /\ obs' = EnvStepObs(env)
        /\ done' = o.done
        /\ IF StoreEffectOk(test_buffer, last_idx)
           THEN /\ test_buffer' = StoreEffect(test_buffer, last_idx, action, o.reward, o.done)
                /\ test_i' = IF o.done THEN test_i + 1 ELSE test_i
                /\ pc' = IF o.done THEN "test_case" ELSE "test_store"
                /\ error' = error
           ELSE /\ Raise("InvalidIndexError")
                /\ UNCHANGED testvars
    /\ UNCHANGED <<trainer, log_writes, fnvars, params, replay_buffer, rlargs, last_obs, last_idx,
                   t, step, train_i, mcvars, epvars>>

(***************************************************************************)
(* Trainer.imitation_learning                                              *)
(***************************************************************************)
\* lines 109-131 and 152-156: return at once when the saved weights are
\* there; otherwise start collecting demonstrations
ImitationLearning ==
    /\ pc = "il"
    /\ \E exists \in BOOLEAN, update \in Updates :
        IF exists
        THEN /\ LoadWeights(IlFile)
             /\ pc' = "rl"
             /\ UNCHANGED <<error, env, obs, step, episodes>>
        ELSE /\ UNCHANGED params
             /\ CASE update = "td" ->
                       /\ env' = EnvReset(env)
                       /\ obs' = EnvResetObs(env)
                       /\ step' = 0
                       /\ pc' = "il_td_store"
                       /\ UNCHANGED <<error, episodes>>
                  [] update = "mc" ->
                       /\ episodes' = 0
                       /\ pc' = "il_mc_episode"
                       /\ UNCHANGED <<error, env, obs, step>>
                  [] OTHER ->
                       /\ Raise("NotImplementedError")
                       /\ UNCHANGED <<env, obs, step, episodes>>
    /\ UNCHANGED <<trainer, log_writes, stepped, fnvars, replay_buffer, rlargs, last_obs, last_idx, done, t, train_i,
                   indices, rewards, value, mc_i, epvars, testvars>>

\* line 134
IL_TD_StoreObservation ==
    /\ pc = "il_td_store"
    /\ last_idx' = StoreObservationIdx(replay_buffer)
    /\ replay_buffer' = StoreObservation(replay_buffer, obs)
    /\ pc' = "il_td_step"
    /\ UNCHANGED <<error, trainer, log_writes, stepped, fnvars, params, env, rlargs, obs, last_obs, done, t, step,
                   train_i, mcvars, epvars, testvars>>

\* lines 135-147: the demonstrated action is approximated and executed, its
\* effect stored; an episode's end either ends the collection or resets
IL_TD_Step ==
    /\ pc = "il_td_step"
    /\ \E demonstration \in Demonstrations, o \in StepOutcomes(env) :
      LET action_rot == ApproximateAction(demonstration).target_action
          index == ApproximateAction(demonstration).index
      IN
        /\ stepped' = [arg |-> RotArg(action_rot), q |-> <<>>]
        /\ done' = o.done
        /\ IF StoreEffectOk(replay_buffer, last_idx)
           THEN /\ replay_buffer' = StoreEffect(replay_buffer, last_idx, index, o.reward, o.done)
                /\ error' = error
                /\ IF o.done /\ step > demonstrate_steps
                   THEN /\ env' = EnvStep(env)
                        /\ obs' = EnvStepObs(env)
                        /\ pc' = "il_td_train"
                        /\ train_i' = 0
                        /\ step' = step
                   ELSE /\ env' = AfterStep(env, o.done).env
                        /\ obs' = AfterStep(env, o.done).obs
                        /\ pc' = "il_td_store"
                        /\ step' = step + 1
                        /\ train_i' = train_i
           ELSE /\ Raise("InvalidIndexError")
                /\ env' = EnvStep(env)
                /\ obs' = EnvStepObs(env)
                /\ UNCHANGED <<replay_buffer, step, train_i>>
    /\ UNCHANGED <<trainer, log_writes, fnvars, params, rlargs, last_obs, last_idx, t, mcvars, epvars, testvars>>

\* lines 150-151: num_train_batch unguarded TD updates
IL_TD_Train ==
    /\ pc = "il_td_train"
    /\ IF train_i < num_train_batch
       THEN /\ td_update("il_td_train")
            /\ train_i' = train_i + 1
       ELSE /\ pc' = "il_save"
            /\ UNCHANGED <<error, params, train_i>>
    /\ UNCHANGED <<trainer, log_writes, stepped, fnvars, replay_buffer, env, rlargs, obs, last_obs, last_idx, done, t,
                   step, mcvars, epvars, testvars>>

\* lines 191-194: weights_file is no name of this scope; the save raises
\* NameError and test() is not reached
IL_Save ==
    /\ pc = "il_save"
    /\ Raise("NameError")
    /\ UNCHANGED <<trainer, log_writes, stepped, fnvars, params, replay_buffer, env, rlargs, obs, last_obs, last_idx,
                   done, t, step, train_i, mcvars, epvars, testvars>>


(***************************************************************************)
(* imitation_learning, Monte-Carlo variant                                 *)
(***************************************************************************)
\* Values are kept exact: a value v is held as the whole number
\* v * den^ValueExp, where gamma = num/den.
ValueExp == time_step * (MaxEpLen - 1)
\* gamma^e, scaled
GammaPow(e) == Pow(gamma[1], e) * Pow(gamma[2], ValueExp - e)

\* lines 181-182: sum([pow(gamma, max(t - i, 0) * time_step) * reward
\*                     for t, reward in enumerate(rewards)]), over the first n rewards
RECURSIVE MCValueUpTo(_, _, _)
MCValueUpTo(rs, i, n) ==
    IF n = 0 THEN 0
    ELSE MCValueUpTo(rs, i, n - 1) + GammaPow(Max((n - 1) - i, 0) * time_step) * rs[n]
MCValue(rs, i) == MCValueUpTo(rs, i, Len(rs))

\* lines 158-164, 185: next episode, or on to the training batches
IL_MC_Episode ==
    /\ pc = "il_mc_episode"
    /\ IF episodes < num_episodes
       THEN /\ env' = EnvReset(env)
            /\ obs' = EnvResetObs(env)
            /\ done' = FALSE
            /\ indices' = <<>>
            /\ rewards' = <<>>
            /\ pc' = "il_mc_store"
            /\ train_i' = train_i
       ELSE /\ pc' = "il_mc_train"
            /\ train_i' = 0
            /\ UNCHANGED <<env, obs, done, indices, rewards>>
    /\ UNCHANGED <<error, trainer, log_writes, stepped, fnvars, params, replay_buffer, rlargs, last_obs, last_idx, t,
                   step, episodes, value, mc_i, epvars, testvars>>

\* line 166
IL_MC_StoreObservation ==
    /\ pc = "il_mc_store"
    /\ last_idx' = StoreObservationIdx(replay_buffer)
    /\ replay_buffer' = StoreObservation(replay_buffer, obs)
    /\ pc' = "il_mc_step"
    /\ UNCHANGED <<error, trainer, log_writes, stepped, fnvars, params, env, rlargs, obs, last_obs, done, t, step,
                   train_i, mcvars, epvars, testvars>>

\* the Monte-Carlo step's buffer write with the value stored at once
MC_StoreEffect_EagerValue(b, idx, index, o) ==
    StoreValue(StoreEffect(b, idx, index, o.reward, o.done), idx, o.reward)

\* line 170
MC_StoreEffect(b, idx, index, o) == StoreEffect(b, idx, index, o.reward, o.done)

\* lines 167-178: step, store_effect, remember index and reward; reset on done
IL_MC_Step ==
    /\ pc = "il_mc_step"
    /\ \E action_xy \in Demonstrations, o \in StepOutcomes(env) :
      LET action_rot == ApproximateAction(action_xy).target_action
          index == ApproximateAction(action_xy).index
      IN
        /\ stepped' = [arg |-> RotArg(action_rot), q |-> <<>>]
        /\ done' = o.done
        /\ env' = AfterStep(env, o.done).env
        /\ obs' = AfterStep(env, o.done).obs
        /\ IF StoreEffectOk(replay_buffer, last_idx)
           THEN /\ replay_buffer' = MC_StoreEffect(replay_buffer, last_idx, index, o)
                /\ indices' = Append(indices, last_idx)
                /\ rewards' = Append(rewards, o.reward)
                /\ pc' = IF o.done THEN "il_mc_value" ELSE "il_mc_store"
                /\ mc_i' = 0
                /\ error' = error
           ELSE /\ Raise("InvalidIndexError")
                /\ UNCHANGED <<replay_buffer, indices, rewards, mc_i>>
    /\ UNCHANGED <<trainer, log_writes, fnvars, params, rlargs, last_obs, last_idx, t, step, train_i,
                   episodes, value, epvars, testvars>>

\* lines 180-183: one store_value per remembered index, then the next episode
IL_MC_StoreValue ==
    /\ pc = "il_mc_value"
    /\ IF mc_i < Len(indices)
       THEN /\ value' = MCValue(rewards, mc_i)
            /\ replay_buffer' = StoreValue(replay_buffer, indices[mc_i + 1], MCValue(rewards, mc_i))
            /\ mc_i' = mc_i + 1
            /\ UNCHANGED <<pc, episodes>>
       ELSE /\ episodes' = episodes + 1
            /\ pc' = "il_mc_episode"
            /\ UNCHANGED <<value, replay_buffer, mc_i>>
    /\ UNCHANGED <<error, trainer, log_writes, stepped, fnvars, params, env, rlargs, obs, last_obs, last_idx, done, t,
                   step, train_i, indices, rewards, epvars, testvars>>

\* lines 186-187: unguarded Monte-Carlo updates
IL_MC_Train ==
    /\ pc = "il_mc_train"
    /\ IF train_i < mc_num_train_batch
       THEN /\ mc_update("il_mc_train")
            /\ train_i' = train_i + 1
       ELSE /\ pc' = "il_save"
            /\ UNCHANGED <<error, params, train_i>>
    /\ UNCHANGED <<trainer, log_writes, stepped, fnvars, replay_buffer, env, rlargs, obs, last_obs, last_idx, done, t,
                   step, mcvars, epvars, testvars>>

(***************************************************************************)
(* Trainer.reinforcement_learning                                          *)
(***************************************************************************)
\* AcceptInfos with every terminal info accepted
AcceptInfos_Any == Infos

\* line 325: the terminal infos whose episode is committed
AcceptInfos == {"Success", "Collision"}

\* LearnCondition without the learning_starts test
LearnCondition_NoStart ==
    /\ t % learning_freq = 0
    /\ CanSample(replay_buffer, batch_size)

\* lines 277-278 and 330-331
LearnCondition ==
    /\ t > learning_starts
    /\ t % learning_freq = 0
    /\ CanSample(replay_buffer, batch_size)

\* lines 235-251: load weights when saved, first reset, t = 0
ReinforcementLearning ==
    /\ pc = "rl"
    /\ \E exists \in BOOLEAN :
        IF exists THEN LoadWeights(RlFile) ELSE UNCHANGED params
    /\ learning_starts' \in LearningStarts
    /\ learning_freq' \in LearningFreqs
    /\ num_timesteps' \in 0 .. MaxTimesteps
    /\ episode_update' \in BOOLEAN
    /\ env' = EnvReset(env)
    /\ last_obs' = EnvResetObs(env)
    /\ t' = 0
    /\ pc' = "rl_check"
    /\ UNCHANGED <<error, trainer, log_writes, stepped, fnvars, replay_buffer, obs, last_idx, done, step, train_i,
                   mcvars, epvars, testvars>>

\* the stopping criterion one step late
StoppingCriterion_Late == env.total_steps > num_timesteps + 1

\* line 254
StoppingCriterion == env.total_steps > num_timesteps

\* lines 252-257 and 282-286: the stopping criterion, then one iteration of
\* either kind
RL_Check ==
    /\ pc = "rl_check"
    /\ IF StoppingCriterion
       THEN /\ pc' = "rl_close"
            /\ UNCHANGED <<done, observations, effects>>
       ELSE IF ~episode_update
            THEN /\ pc' = "rl_store"
                 /\ UNCHANGED <<done, observations, effects>>
            ELSE /\ pc' = "rl_ep_step"
                 /\ done' = FALSE
                 /\ observations' = <<>>
                 /\ effects' = <<>>
    /\ UNCHANGED <<error, trainer, log_writes, stepped, fnvars, params, replay_buffer, env, rlargs, obs, last_obs,
                   last_idx, t, step, train_i, mcvars, commit_i, info, testvars>>

\* lines 258-259
RL_StoreObservation ==
    /\ pc = "rl_store"
    /\ last_idx' = StoreObservationIdx(replay_buffer)
    /\ replay_buffer' = StoreObservation(replay_buffer, last_obs)
    /\ pc' = "rl_step"
    /\ UNCHANGED <<error, trainer, log_writes, stepped, fnvars, params, env, rlargs, obs, last_obs, done, t, step,
                   train_i, mcvars, epvars, testvars>>

\* lines 261-275: choose an action, step, store_effect, reset on done;
\* info is never read
RL_Step ==
    /\ pc = "rl_step"
    /\ \E action \in Actions, o \in StepOutcomes(env) :
        /\ stepped' = [arg |-> IndexArg(action), q |-> <<>>]
        /\ done' = o.done
        /\ env' = AfterStep(env, o.done).env
        /\ obs' = AfterStep(env, o.done).obs
        /\ last_obs' = obs'
        /\ IF StoreEffectOk(replay_buffer, last_idx)
           THEN /\ replay_buffer' = StoreEffect(replay_buffer, last_idx, action, o.reward, o.done)
                /\ pc' = "rl_learn"
                /\ error' = error
           ELSE /\ Raise("InvalidIndexError")
                /\ UNCHANGED replay_buffer
    /\ UNCHANGED <<trainer, log_writes, fnvars, params, rlargs, last_idx, t, step, train_i, mcvars, epvars,
                   testvars>>

\* lines 277-280
RL_Learn ==
    /\ pc = "rl_learn"
    /\ IF LearnCondition
       THEN td_update("rl_log")
       ELSE /\ pc' = "rl_log"
            /\ UNCHANGED <<error, params>>
    /\ t' = t + 1
    /\ UNCHANGED <<trainer, log_writes, stepped, fnvars, replay_buffer, env, rlargs, obs, last_obs, last_idx, done,
                   step, train_i, mcvars, epvars, testvars>>

\* lines 288-323: one step of an episode held back from the buffer
RL_EpisodeStep ==
    /\ pc = "rl_ep_step"
    /\ \E action \in Actions, o \in StepOutcomes(env) :
        /\ stepped' = [arg |-> IndexArg(action), q |-> <<>>]
        /\ env' = EnvStep(env)
        /\ obs' = EnvStepObs(env)
        /\ done' = o.done
        /\ info' = o.info
        /\ observations' = Append(observations, last_obs)
        /\ effects' = Append(effects, [action |-> action, reward |-> o.reward, done |-> o.done])
        /\ last_obs' = EnvStepObs(env)
        /\ pc' = IF o.done THEN "rl_commit" ELSE "rl_ep_step"
    /\ t' = t + 1
    /\ commit_i' = 0
    /\ UNCHANGED <<error, trainer, log_writes, fnvars, params, replay_buffer, rlargs, last_idx, step, train_i,
                   mcvars, testvars>>

\* lines 325-328 and 334-335: the next held-back observation of an accepted
\* episode, or the reset that ends the iteration.  The episode's lists and
\* info are not read again before lines 283-286 and 318 replace them; they
\* are dropped here.
RL_Commit ==
    /\ pc = "rl_commit"
    /\ IF info \in AcceptInfos /\ commit_i < Len(observations)
       THEN /\ last_idx' = StoreObservationIdx(replay_buffer)
            /\ replay_buffer' = StoreObservation(replay_buffer, observations[commit_i + 1])
            /\ obs' = observations[commit_i + 1]
            /\ pc' = "rl_commit_effect"
            /\ UNCHANGED <<env, last_obs>>
            /\ UNCHANGED <<observations, effects, info>>
       ELSE /\ env' = EnvReset(env)
            /\ last_obs' = EnvResetObs(env)
            /\ pc' = "rl_log"
            /\ observations' = <<>>
            /\ effects' = <<>>
            /\ info' = "Nothing"
            /\ UNCHANGED <<replay_buffer, last_idx, obs>>
    /\ UNCHANGED <<error, trainer, log_writes, stepped, fnvars, params, rlargs, done, t, step, train_i, mcvars, commit_i,
                   testvars>>

\* the commit loop without its store_effect
RL_CommitEffect_Skip ==
    /\ pc = "rl_commit_effect"
    /\ pc' = "rl_commit_learn"
    /\ UNCHANGED <<error, trainer, log_writes, stepped, fnvars, params, replay_buffer, env, rlargs, obs, last_obs,
                   last_idx, done, t, step, train_i, mcvars, epvars, testvars>>

\* the commit loop with the store_effect of an episode's first transition only
RL_CommitEffect_FirstOnly ==
    /\ pc = "rl_commit_effect"
    /\ LET effect == effects[commit_i + 1] IN
        IF commit_i = 0
        THEN replay_buffer' = StoreEffect(replay_buffer, last_idx, effect.action,
                                          effect.reward, effect.done)
        ELSE UNCHANGED replay_buffer
    /\ pc' = "rl_commit_learn"
    /\ UNCHANGED <<error, trainer, log_writes, stepped, fnvars, params, env, rlargs, obs, last_obs,
                   last_idx, done, t, step, train_i, mcvars, epvars, testvars>>

\* line 329
RL_CommitEffect ==
    /\ pc = "rl_commit_effect"
    /\ LET effect == effects[commit_i + 1] IN
        IF StoreEffectOk(replay_buffer, last_idx)
        THEN /\ replay_buffer' = StoreEffect(replay_buffer, last_idx, effect.action,
                                             effect.reward, effect.done)
             /\ pc' = "rl_commit_learn"
             /\ error' = error
        ELSE /\ Raise("InvalidIndexError")
             /\ UNCHANGED replay_buffer
    /\ UNCHANGED <<trainer, log_writes, stepped, fnvars, params, env, rlargs, obs, last_obs, last_idx, done, t, step,
                   train_i, mcvars, epvars, testvars>>

\* lines 330-332, and the for loop's advance
RL_CommitLearn ==
    /\ pc = "rl_commit_learn"
    /\ IF LearnCondition
       THEN td_update("rl_commit")
       ELSE /\ pc' = "rl_commit"
            /\ UNCHANGED <<error, params>>
    /\ commit_i' = commit_i + 1
    /\ UNCHANGED <<trainer, log_writes, stepped, fnvars, replay_buffer, env, rlargs, obs, last_obs, last_idx, done, t,
                   step, train_i, mcvars, observations, effects, info, testvars>>

\* lines 337-369: statistics; when due, the export and then the save, which
\* raises NameError (weights_file is no name of this scope)
RL_Log ==
    /\ pc = "rl_log"
    /\ IF t % log_every_n_steps = 0 /\ t > learning_starts
       THEN Raise("NameError") /\ log_writes' = log_writes \cup {t}
       ELSE pc' = "rl_check" /\ error' = error /\ log_writes' = log_writes
    /\ UNCHANGED <<trainer, stepped, fnvars, params, replay_buffer, env, rlargs, obs, last_obs, last_idx,
                   done, t, step, train_i, mcvars, epvars, testvars>>

\* line 371
RL_Close ==
    /\ pc = "rl_close"
    /\ pc' = "done"
    /\ UNCHANGED <<error, trainer, log_writes, stepped, fnvars, params, replay_buffer, env, rlargs, obs, last_obs,
                   last_idx, done, t, step, train_i, mcvars, epvars, testvars>>

Next ==
    \/ Main
    \/ Test \/ TestCase \/ TestStoreObservation \/ TestStep
    \/ ImitationLearning
    \/ IL_TD_StoreObservation \/ IL_TD_Step \/ IL_TD_Train \/ IL_Save
    \/ IL_MC_Episode \/ IL_MC_StoreObservation \/ IL_MC_Step \/ IL_MC_StoreValue
    \/ IL_MC_Train
    \/ ReinforcementLearning \/ RL_Check
    \/ RL_StoreObservation \/ RL_Step \/ RL_Learn
    \/ RL_EpisodeStep \/ RL_Commit \/ RL_CommitEffect \/ RL_CommitLearn
    \/ RL_Log \/ RL_Close

Spec == Init /\ [][Next]_vars

\* the one process runs on as long as it has a step to take
FairSpec == Spec /\ WF_vars(Next)


(***************************************************************************)
(* The arithmetic of one _td_update (lines 402-421), for one transition of *)
(* the batch: every operation of these lines is elementwise.               *)
(*                                                                         *)
(* A float is <<"num", k>>, the number k / Unit, or an infinity or NaN.    *)
(* Rounding is left out; inf and NaN behave as in IEEE 754.                *)
(***************************************************************************)
\* the denominator of pow(gamma, time_step): numbers are held in units of 1/Unit
Unit == Pow(gamma[2], time_step)
Num(k) == <<"num", k>>
PosInf == <<"inf", 1>>
NegInf == <<"inf", 0 - 1>>
NaN == <<"nan", 0>>
IsNum(x) == x[1] = "num"
IsInf(x) == x[1] = "inf"
IsNaN(x) == x[1] = "nan"

FNeg(x) == IF IsNaN(x) THEN NaN ELSE <<x[1], 0 - x[2]>>
FAdd(x, y) ==
    IF IsNaN(x) \/ IsNaN(y) THEN NaN
    ELSE IF IsInf(x) /\ IsInf(y) THEN (IF x = y THEN x ELSE NaN)
    ELSE IF IsInf(x) THEN x
    ELSE IF IsInf(y) THEN y
    ELSE Num(x[2] + y[2])
FSub(x, y) == FAdd(x, FNeg(y))
\* mask * x for a mask of 0 or 1: 0 * inf and 0 * NaN are NaN
MaskMul(mask, x) ==
    IF IsNaN(x) THEN NaN
    ELSE IF IsInf(x) THEN (IF mask = 0 THEN NaN ELSE x)
    ELSE Num(mask * x[2])
\* pow(gamma, time_step) * x, a finite positive factor; exact for the
\* values drawn below
GammaMul(x) ==
    IF IsNum(x) THEN Num((Pow(gamma[1], time_step) * x[2]) \div Pow(gamma[2], time_step))
    ELSE x
\* clamp(lo, hi) with lo <= hi numbers: NaN stays NaN
FClamp(x, lo, hi) ==
    IF IsNaN(x) THEN NaN
    ELSE IF IsInf(x) THEN (IF x = PosInf THEN Num(hi) ELSE Num(lo))
    ELSE Num(Max(lo, Min(hi, x[2])))

\* the rewards of the sampled transitions, and the outputs of a value function
RewardBatch == {Num(0 - 3 * Unit), Num(0), Num(Unit), Num(3 * Unit)}
QOutputs == {Num(0 - 2 * Unit), Num(0), Num(2 * Unit), PosInf, NaN}

\* NotDoneMask with nothing masked
NotDoneMask_Ones(done_mask) == 1

\* line 402
NotDoneMask(done_mask) == 1 - done_mask

\* line 410: the target function's output at the next state, max over actions
NextMaxQ(target_out, live_out) == target_out

\* line 411
NextQValues(not_done_mask, next_max_q) == MaskMul(not_done_mask, next_max_q)

\* line 413
TargetQValues(reward_batch, next_q_values) == FAdd(reward_batch, GammaMul(next_q_values))

\* line 416
TdError(target_q_values, current_q_values) == FSub(target_q_values, current_q_values)

\* the Bellman error left unclipped
ClippedBellmanError_None(td_error) == td_error

\* line 418
ClippedBellmanError(td_error) == FClamp(td_error, 0 - Unit, Unit)

\* line 421
DError(clipped_bellman_error) == FNeg(clipped_bellman_error)

\* lines 393-425 for one sampled transition (reward, done) with the outputs of
\* the live function at the state (current_q) and of the target and the live
\* function at the next state
TdLocals(reward, done_mask, current_q, target_out, live_out) ==
    LET not_done_mask == NotDoneMask(done_mask)
        next_max_q == NextMaxQ(target_out, live_out)
        next_q_values == NextQValues(not_done_mask, next_max_q)
        target_q_values == TargetQValues(reward, next_q_values)
        td_error == TdError(target_q_values, current_q)
        clipped_bellman_error == ClippedBellmanError(td_error)
    IN  [called |-> TRUE,
         reward_batch |-> reward,
         done_mask |-> done_mask,
         current_q_values |-> current_q,
         target_out |-> target_out,
         live_out |-> live_out,
         not_done_mask |-> not_done_mask,
         next_q_values |-> next_q_values,
         target_q_values |-> target_q_values,
         td_error |-> td_error,
         clipped_bellman_error |-> clipped_bellman_error,
         d_error |-> DError(clipped_bellman_error)]

\* one call of _td_update up to the backward pass
TD_Update ==
    /\ pc = "main"
    /\ \E reward \in RewardBatch, done_mask \in {0, 1},
          current_q \in QOutputs, target_out \in QOutputs, live_out \in QOutputs :
            td' = TdLocals(reward, done_mask, current_q, target_out, live_out)
    /\ pc' = "returned"
    /\ UNCHANGED <<error, trainer, stepped, params, replay_buffer, env, rlargs, obs, last_obs,
                   last_idx, done, t, step, train_i, mcvars, epvars, testvars,
                   log_writes, stack, sel>>

(***************************************************************************)
(* The stacked observation of the episode-batched loop (lines 282-310).    *)
(* A frame is named <<episode, step>>; the goals are stacked as the frames *)
(* are, by the same lines, and follow them.                                *)
(***************************************************************************)
\* line 301: np.zeros_like(frame)
ZeroFrame == <<0, 0>>
\* the number of frames the slice of lines 306-307 keeps
FramesKept == 4
\* n copies of x
Repeat(x, n) == [j \in 1 .. n |-> x]
\* seq[-n:]
LastN(seq, n) == SubSeq(seq, Max(1, Len(seq) - n + 1), Len(seq))

\* lines 297-307
FrameConcat(frames, frame_history_len) ==
    IF Len(frames) < frame_history_len
    THEN Repeat(ZeroFrame, frame_history_len - Len(frames)) \o frames
    ELSE LastN(frames, FramesKept)

\* lines 282-286: an episode of the episode-batched loop begins
Stack_Episode ==
    /\ \/ /\ pc = "main"
          /\ \E h \in 1 .. MaxFrameHistory :
                stack' = [called |-> TRUE, frame_history_len |-> h, episode |-> 1,
                          frames |-> <<>>, frame_concat |-> <<>>]
       \/ /\ pc = "stack_done"
          /\ stack.episode < MaxStackEpisodes
          /\ stack' = [stack EXCEPT !.episode = @ + 1, !.frames = <<>>,
                                    !.frame_concat = <<>>]
    /\ pc' = "stack_step"
    /\ UNCHANGED <<error, trainer, stepped, params, replay_buffer, env, rlargs, obs, last_obs,
                   last_idx, done, t, step, train_i, mcvars, epvars, testvars,
                   log_writes, td, sel>>

\* lines 287-310 and 318: the frame of last_obs joins the episode's frames,
\* the stacked observation is built of them, the step is made
Stack_Step ==
    /\ pc = "stack_step"
    /\ LET frames == Append(stack.frames, <<stack.episode, Len(stack.frames) + 1>>) IN
         stack' = [stack EXCEPT !.frames = frames,
                                !.frame_concat = FrameConcat(frames, stack.frame_history_len)]
    /\ \E d \in BOOLEAN :
         /\ (Len(stack.frames) + 1 >= MaxFrames) => d
         /\ pc' = IF d THEN "stack_done" ELSE "stack_step"
    /\ UNCHANGED <<error, trainer, stepped, params, replay_buffer, env, rlargs, obs, last_obs,
                   last_idx, done, t, step, train_i, mcvars, epvars, testvars,
                   log_writes, td, sel>>

(***************************************************************************)
(* The selection of reinforcement_learning's actions (lines 261-266 and    *)
(* 312-316, the same in both modes) and the count of t (lines 251, 280,    *)
(* 323).  What is kept of a selection is how it was made.                  *)
(***************************************************************************)
\* no argument: exploration.value was not called
NoT == 0 - 1

\* the test of learning_starts taken as t >= learning_starts
PastLearningStarts_Incl(tt, ls) == tt >= ls

\* lines 262 and 312
PastLearningStarts(tt, ls) == tt > ls

\* lines 373-381: greedy by the value function when the drawn sample exceeds
\* the threshold, else random.randrange(num_actions)
SelectEpsilonGreedyAction(sample_exceeds) ==
    IF sample_exceeds
    THEN [how |-> "greedy", q_called |-> TRUE]
    ELSE [how |-> "randrange", q_called |-> FALSE]

\* lines 262-266 and 312-316
SelectAction(tt, ls, sample_exceeds) ==
    IF PastLearningStarts(tt, ls)
    THEN [how |-> SelectEpsilonGreedyAction(sample_exceeds).how,
          q_called |-> SelectEpsilonGreedyAction(sample_exceeds).q_called,
          eps_greedy |-> TRUE,
          exploration_arg |-> tt]
    ELSE [how |-> "randrange", q_called |-> FALSE, eps_greedy |-> FALSE,
          exploration_arg |-> NoT]

\* line 251: reinforcement_learning begins with t = 0
Select_Start ==
    /\ pc = "main"
    /\ \E ls \in LearningStarts :
          sel' = [called |-> TRUE, learning_starts |-> ls, t |-> 0, steps |-> 0,
                  selection |-> SelectAction(0, ls, FALSE)]
    /\ pc' = "select"
    /\ UNCHANGED <<error, trainer, stepped, params, replay_buffer, env, rlargs, obs, last_obs,
                   last_idx, done, t, step, train_i, mcvars, epvars, testvars,
                   log_writes, td, stack>>

\* one step of either loop: the action is selected (lines 262-266, 312-316),
\* env.step is made (268, 318), t is advanced (280, 323)
Select_Step ==
    /\ pc = "select"
    /\ sel.steps < MaxSelectSteps
    /\ \E sample_exceeds \in BOOLEAN :
          sel' = [sel EXCEPT !.selection = SelectAction(sel.t, sel.learning_starts,
                                                       sample_exceeds),
                             !.steps = @ + 1,
                             !.t = @ + 1]
    /\ UNCHANGED <<pc, error, trainer, stepped, params, replay_buffer, env, rlargs, obs, last_obs,
                   last_idx, done, t, step, train_i, mcvars, epvars, testvars,
                   log_writes, td, stack>>

FnNext ==
    \/ TD_Update
    \/ Stack_Episode \/ Stack_Step
    \/ Select_Start \/ Select_Step

\* the functions of the Trainer, each called once on drawn arguments
FnSpec == Init /\ [][FnNext]_vars


(***************************************************************************)
(* Properties.                                                             *)
(***************************************************************************)
\* positions inside reinforcement_learning's loop
RLPcs == {"rl_check", "rl_store", "rl_step", "rl_learn", "rl_ep_step", "rl_commit",
          "rl_commit_effect", "rl_commit_learn", "rl_log", "rl_close"}
\* positions between a store_observation and its store_effect
AwaitEffectPcs == {"il_td_step", "il_mc_step", "rl_step", "rl_commit_effect"}

\* one step of a buffer from b to bn, where idx and idxn are the driver's
\* last_idx before and after: a store_observation finds no slot pending and
\* returns the one slot pending afterwards; a store_effect completes the
\* pending slot, which is the one last_idx names
TwoPhaseStep(b, bn, idx, idxn) ==
    (b.size = bn.size) =>
        /\ (bn.obs # b.obs) =>
              /\ Pending(b) = {}
              /\ Pending(bn) = {idxn}
              /\ idxn = b.next_idx
        /\ \A i \in 0 .. (b.size - 1) :
              (b.effect[i] = NoEffect /\ bn.effect[i] # NoEffect) =>
                  /\ Pending(b) = {i}
                  /\ i = idx
                  /\ Pending(bn) = {}

\* C1: in every mode each store_observation on a buffer is followed by exactly
\* one store_effect carrying the returned index, with no other
\* store_observation in between: a slot is pending only between the two
\* calls, at most one is, store_effect never meets a wrong index, and every
\* buffer step is one of the two phases in turn.
C1_TwoPhaseWrite ==
    /\ [](/\ (Pending(replay_buffer) # {}) <=> (pc \in AwaitEffectPcs)
          /\ (Pending(test_buffer) # {}) <=> (pc = "test_step")
          /\ Cardinality(Pending(replay_buffer)) <= 1
          /\ Cardinality(Pending(test_buffer)) <= 1
          /\ error # "InvalidIndexError")
    /\ [][/\ TwoPhaseStep(replay_buffer, replay_buffer', last_idx, last_idx')
          /\ TwoPhaseStep(test_buffer, test_buffer', last_idx, last_idx')]_vars

\* a committed slot has been completed by its store_effect in the commit loop
C1_Witness ==
    /\ pc = "rl_commit_learn"
    /\ commit_i = 1
    /\ Pending(replay_buffer) = {}
    /\ replay_buffer.effect[last_idx] = effects[2]

\* C2: in reinforcement_learning a TD update is performed exactly in the
\* states, at lines 277 and 330, where t > learning_starts, t % learning_freq
\* = 0 and can_sample(batch_size) hold; nowhere else in the loop.
C2_LearnGate ==
    [][(pc \in RLPcs) =>
         ((num_param_updates' # num_param_updates) <=>
            /\ pc \in {"rl_learn", "rl_commit_learn"}
            /\ t > learning_starts
            /\ t % learning_freq = 0
            /\ CanSample(replay_buffer, batch_size))]_vars

\* a TD update has been made by reinforcement_learning
C2_Witness == pc = "rl_log" /\ ~episode_update /\ num_param_updates > 0

\* C3: at least learning_freq environment steps lie between two consecutive
\* TD updates of reinforcement_learning.
C3_Cadence ==
    [][(pc \in RLPcs /\ num_param_updates' # num_param_updates /\ last_update_at # -1) =>
         env.total_steps - last_update_at >= learning_freq]_vars

\* C4: every learning step adds one to num_param_updates and changes the live
\* parameters; the target becomes a copy of the live parameters at the end of
\* the steps whose count is a multiple of target_update_freq and is unchanged
\* by every other learning step; outside weight loading nothing else writes it.
C4_TargetSync ==
    [][/\ (num_param_updates' # num_param_updates) =>
             /\ num_param_updates' = num_param_updates + 1
             /\ Q' # Q
             /\ IF num_param_updates' % target_update_freq = 0
                THEN target_Q' = Q'
                ELSE target_Q' = target_Q
       /\ (target_Q' # target_Q /\ num_param_updates' = num_param_updates) =>
             pc \in {"main", "il", "rl"}]_vars

\* the target, left behind by the first learning step, has been made a copy
\* of the live parameters by the second
C4_Witness ==
    /\ num_param_updates = target_update_freq
    /\ target_Q = Q
    /\ Q[2] = target_update_freq
    /\ pc = "rl_log"


\* the last Min(n, capacity) of the first n transitions of the lists os, es
\* lie in the buffer's most recent slots, oldest first, each observation with
\* its own effect
Committed(b, os, es, n) ==
    \A j \in 1 .. Min(n, b.size) :
        LET slot == (b.next_idx + b.size - j) % b.size IN
            /\ b.obs[slot] = os[n - j + 1]
            /\ b.effect[slot] = es[n - j + 1]

\* the held-back lists are the running episode's: its reset's observation
\* first, then each step's, and done only in the last effect
HeldBack(os, es, e) ==
    /\ Len(os) = e.ep_len
    /\ Len(es) = e.ep_len
    /\ \A k \in 1 .. Len(os) :
          /\ os[k] = (IF k = 1 THEN ResetObs(e.resets)
                      ELSE StepObs(e.total_steps - e.ep_len + k - 1))
          /\ es[k].done <=> (k = Len(os))

RECURSIVE DiscountedReturnFrom(_, _, _)
DiscountedReturnFrom(rs, i, tt) ==
    IF tt >= Len(rs) THEN 0
    ELSE GammaPow((tt - i) * time_step) * rs[tt + 1] + DiscountedReturnFrom(rs, i, tt + 1)
DiscountedReturn(rs, i) == DiscountedReturnFrom(rs, i, i)

\* C6: the value passed to store_value for the i-th transition of a
\* Monte-Carlo episode is the discounted return from position i; earlier
\* rewards do not contribute.
C6_MCReturn ==
    (pc = "il_mc_value" /\ mc_i > 0) =>
        /\ value = DiscountedReturn(rewards, mc_i - 1)
        /\ replay_buffer.value[indices[mc_i]] = value

\* C7 as claimed: during a Monte-Carlo episode no buffer write of any kind is
\* made before the episode's done signal has been received.
C7_NoWriteBeforeDone ==
    [][(pc \in {"il_mc_store", "il_mc_step"} /\ ~done') =>
         replay_buffer' = replay_buffer]_vars

\* C7, amended: store_observation and store_effect are made at every step of
\* a Monte-Carlo episode; only store_value is held back until the episode's
\* done signal has been received.
C7_ValueAfterDone ==
    /\ [][(pc \in {"il_mc_episode", "il_mc_store", "il_mc_step", "il_mc_value"}
           /\ replay_buffer'.value # replay_buffer.value) =>
             (pc = "il_mc_value" /\ done)]_vars
    /\ [][(pc = "il_mc_store") =>
             replay_buffer'.obs[last_idx'] = obs]_vars
    /\ [][(pc = "il_mc_step" /\ pc' # "crashed") =>
             /\ replay_buffer.effect[last_idx] = NoEffect
             /\ replay_buffer'.effect[last_idx].done = done'
             /\ replay_buffer'.effect[last_idx].reward = rewards'[Len(rewards')]]_vars

\* an episode's values are being stored after its done, the buffer having been
\* written during the episode
C7_Witness ==
    /\ pc = "il_mc_value"
    /\ done
    /\ mc_i = Len(indices)
    /\ Len(indices) >= 2
    /\ replay_buffer.value[indices[mc_i]] = value

\* C8: on every path sample(batch_size) is invoked only in a state where
\* can_sample(batch_size) holds: the unguarded training loops of
\* imitation_learning find the buffer able to supply a batch, and no sample
\* call fails.
C8_SampleGuard ==
    /\ (pc = "il_td_train" /\ train_i < num_train_batch) =>
          CanSample(replay_buffer, batch_size)
    /\ (pc = "il_mc_train" /\ train_i < mc_num_train_batch) =>
          CanSample(replay_buffer, batch_size)
    /\ error # "InsufficientDataError"

\* C9 as claimed: in either mode the total never exceeds num_timesteps + 1.
C9_Ceiling == (pc \in RLPcs) => env.total_steps <= num_timesteps + 1

\* C9, amended: in step-wise mode no env.step is made once the total has
\* exceeded num_timesteps, so the total stays within num_timesteps + 1; in
\* episode-batched mode the ceiling is tested between episodes only: no
\* episode is begun once the total has exceeded num_timesteps, and the one in
\* progress runs to its end, so the total stays within num_timesteps plus the
\* length of one episode.
C9_CeilingByMode ==
    /\ []((pc \in RLPcs /\ ~episode_update) => env.total_steps <= num_timesteps + 1)
    /\ []((pc \in RLPcs /\ episode_update) => env.total_steps <= num_timesteps + MaxEpLen)
    /\ [][(pc \in RLPcs /\ env'.total_steps # env.total_steps) =>
            IF episode_update
            THEN env.total_steps - env.ep_len <= num_timesteps
            ELSE env.total_steps <= num_timesteps]_vars

\* the episode-batched loop has stopped more than one step past the ceiling
C9_Witness ==
    /\ pc = "rl_close"
    /\ episode_update
    /\ env.total_steps > num_timesteps + 1

\* C10: in step-wise collection the observation stored next after a step is
\* the one returned by the reset that followed the step when the step
\* returned done, and the one returned by the step otherwise.
C10_ResetOnDone ==
    [][((pc = "rl_store" /\ t > 0) \/ (pc = "il_td_store" /\ step > 0)) =>
         replay_buffer'.obs[last_idx'] =
            (IF done THEN ResetObs(env.resets) ELSE StepObs(env.total_steps))]_vars
    /\ []((pc \in {"rl_store", "il_td_store"} /\ done) => env.ep_len = 0)
    /\ []((pc \in {"rl_store", "il_td_store"} /\ ~done /\ t + step > 0) => env.ep_len > 0)

\* the observation of the reset after a done step has been stored
C10_Witness ==
    /\ pc = "rl_step"
    /\ done
    /\ t > 0
    /\ replay_buffer.obs[last_idx] = ResetObs(env.resets)
    /\ env.resets > 1

\* C11: every multiple m of log_every_n_steps with m > learning_starts that the
\* step counter t of reinforcement_learning has reached or passed has had its
\* statistics write (lines 357-366): none is skipped.
C11_CheckpointCadence ==
    (pc \in {"rl_check", "rl_close"}) =>
        \A m \in 1 .. t :
            (m % log_every_n_steps = 0 /\ m > learning_starts) => m \in log_writes

C14_Stack ==
    (stack.called /\ stack.frames # <<>>) =>
        LET H == stack.frame_history_len
            n == Len(stack.frames)
        IN  /\ Len(stack.frame_concat) = H
            /\ \A j \in 1 .. H :
                  stack.frame_concat[j] =
                     (IF j <= H - n THEN ZeroFrame ELSE <<stack.episode, n - H + j>>)

\* C15: the replay buffer is never sampled while a slot is pending: whenever
\* _td_update or _mc_update calls sample (a learning step follows, or the
\* buffer's refusal) every store_observation made so far has been completed
\* by its store_effect, and no sample is made between a store_observation and
\* its store_effect.
C15_NoSampleWhilePending ==
    [][(num_param_updates' # num_param_updates
        \/ (error' = "InsufficientDataError" /\ error # "InsufficientDataError")) =>
          /\ Pending(replay_buffer) = {}
          /\ pc \notin AwaitEffectPcs]_vars

\* a batch has been sampled by imitation learning from a buffer without a
\* pending slot
C15_Witness ==
    /\ pc = "il_td_train"
    /\ train_i = 1
    /\ num_param_updates = 1
    /\ Pending(replay_buffer) = {}

\* the observation stored for the k-th transition of the Monte-Carlo episode
\* of n steps that has just ended (and been followed by the reset of line 176)
McEpisodeObs(k, n, e) ==
    IF k = 1 THEN ResetObs(e.resets - 1) ELSE StepObs(e.total_steps - n + k - 1)

\* C16: whatever the capacity and the episode's length, every store_value of
\* the Monte-Carlo variant is made on a slot completed by store_effect that
\* still holds the transition the value was computed for, and each transition
\* of the episode receives exactly one store_value (no two share a slot).
C16_StoreValueLive ==
    (pc = "il_mc_value") =>
        \A k \in 1 .. Len(indices) :
            /\ replay_buffer.effect[indices[k]] # NoEffect
            /\ replay_buffer.obs[indices[k]] = McEpisodeObs(k, Len(indices), env)
            /\ \A k2 \in 1 .. Len(indices) : (k2 # k) => indices[k2] # indices[k]

\* C17: the action of the k-th step of reinforcement_learning (k from 0, the
\* pre-learning steps counted) is selected with t = k: for k <= learning_starts
\* by random.randrange alone, without the exploration schedule and without the
\* value function; for k > learning_starts epsilon-greedily with the
\* threshold exploration.value(k), the value function being asked exactly
\* when the greedy action is taken.
C17_Selection ==
    (sel.called /\ sel.steps > 0) =>
        LET k == sel.steps - 1 IN
            /\ sel.t = sel.steps
            /\ (k <= sel.learning_starts) =>
                  /\ sel.selection.how = "randrange"
                  /\ ~sel.selection.eps_greedy
                  /\ ~sel.selection.q_called
                  /\ sel.selection.exploration_arg = NoT
            /\ (k > sel.learning_starts) =>
                  /\ sel.selection.eps_greedy
                  /\ sel.selection.exploration_arg = k
                  /\ sel.selection.how \in {"greedy", "randrange"}
                  /\ sel.selection.q_called <=> (sel.selection.how = "greedy")

\* with learning_starts = 1 the third action (t = 2) has been taken greedily
\* under the threshold exploration.value(2)
C17_Witness ==
    /\ sel.called
    /\ sel.learning_starts = 1
    /\ sel.steps = 3
    /\ sel.selection.how = "greedy"
    /\ sel.selection.exploration_arg = 2

\* C18: every episode ending and every env.step adding one to the total,
\* reinforcement_learning, once in its main loop, eventually leaves it and
\* closes the writer (line 371), in either mode and for every num_timesteps.
C18_Termination == (pc = "rl_check") ~> (pc = "rl_close")

\* C19: the saves complete and the run goes on: imitation_learning, its
\* training batches done, saves the live parameters and goes on to test();
\* reinforcement_learning, each time its logging condition holds, exports the
\* statistics, saves the live parameters and goes on to the next iteration,
\* without raising an error.
C19_SaveCompletes ==
    [][/\ (pc = "il_save") => (pc' = "test" /\ error' = error)
       /\ (pc = "rl_log" /\ t % log_every_n_steps = 0 /\ t > learning_starts) =>
             (pc' = "rl_check" /\ error' = error)]_vars

\* C20: when load_il_weights finds the saved file, imitation_learning returns
\* at once, to reinforcement_learning: the live and the target function both
\* hold the loaded parameters, and no env.reset or env.step, no write to a
\* buffer, no learning step and no test() has been made; it returns without
\* more ado in no other case.
C20_ImitationSkip ==
    [][(pc = "il") =>
         /\ (Q' = IlFile) =>
               /\ pc' = "rl"
               /\ target_Q' = IlFile
               /\ env' = env
               /\ replay_buffer' = replay_buffer
               /\ test_buffer' = test_buffer
               /\ test_i' = test_i
               /\ num_param_updates' = num_param_updates
               /\ error' = error
         /\ (pc' = "rl") => (Q' = IlFile)]_vars

\* imitation learning has been skipped: loaded parameters in both functions,
\* an environment never reset, an empty buffer
C20_Witness ==
    /\ pc = "rl"
    /\ Q = IlFile
    /\ target_Q = IlFile
    /\ env = NewEnv
    /\ replay_buffer.num_in_buffer = 0
    /\ num_param_updates = 0

(***************************************************************************)
(* C21.  Recorded action equals executed action: whenever the environment  *)
(* takes a step, the action index the same iteration records for the slot  *)
(* (in the buffer, or in the held-back effects of an episode-batched       *)
(* episode) is the index of the action env.step received, and a committed  *)
(* held-back effect keeps that index.  In imitation learning env.step       *)
(* receives the discrete action closest to the demonstration.              *)
(***************************************************************************)
C21_RecordedIsExecuted ==
    [][ /\ (env'.total_steps # env.total_steps /\ pc' # "crashed") =>
            LET recorded == IF pc = "test_step"
                            THEN test_buffer'.effect[last_idx].action
                            ELSE IF pc = "rl_ep_step"
                            THEN effects'[Len(effects')].action
                            ELSE replay_buffer'.effect[last_idx].action
            IN  /\ recorded \in Actions
                /\ EnvAction(recorded) = Executed(stepped'.arg)
                /\ stepped'.arg[1] = "index" => stepped'.arg[2] = recorded
        /\ (pc = "rl_commit_effect" /\ pc' # "crashed") =>
            replay_buffer'.effect[last_idx].action = effects[commit_i + 1].action
      ]_vars

\* an imitation step has executed and recorded the action of index 1
C21_Witness ==
    /\ pc \in {"il_td_store", "il_td_train", "il_mc_store", "il_mc_value"}
    /\ stepped.arg = RotArg(EnvAction(1))
    /\ replay_buffer.effect[last_idx].action = 1

(***************************************************************************)
(* C22.  Target is always a past snapshot of the live function: once the   *)
(* Trainer is constructed, the target parameters are parameters the live   *)
(* function has held since its construction or last weight load (the live  *)
(* parameters after some number k of its optimizer steps), so the two are  *)
(* equal before the first learning step.                                   *)
(***************************************************************************)
C22_TargetIsSnapshot ==
    (pc # "main") =>
        /\ \E k \in 0 .. Q[2] : target_Q = <<Q[1], k>>
        /\ (num_param_updates = 0) => target_Q = Q

(***************************************************************************)
(* C23.  One reset per episode: within the run of a mode, a call of        *)
(* env.reset that is not the mode's first follows at least one env.step    *)
(* since the previous reset.                                               *)
(***************************************************************************)
\* the next env.reset is the first of a mode's run (lines 131, 159, 219, 248)
FirstResetOfMode ==
    \/ pc \in {"il", "rl"}
    \/ pc = "il_mc_episode" /\ episodes = 0
    \/ pc = "test_case" /\ test_i = 0

C23_OneResetPerEpisode ==
    [][(env'.resets = env.resets + 1 /\ env'.total_steps = env.total_steps) =>
            (FirstResetOfMode \/ env.ep_len > 0)]_vars

(***************************************************************************)
(* C24.  test() is isolated from training state: no step of test() writes  *)
(* to the Trainer's replay buffer (test() starts from a fresh buffer of    *)
(* its own), none is a learning step, none changes the live parameters,    *)
(* the target parameters or num_param_updates, and every action test()     *)
(* executes has a largest output of the live function.                     *)
(***************************************************************************)
TestPcs == {"test", "test_case", "test_store", "test_step"}

C24_TestIsolated ==
    [][(pc \in TestPcs) =>
        /\ replay_buffer' = replay_buffer
        /\ Q' = Q /\ target_Q' = target_Q
        /\ num_param_updates' = num_param_updates
        /\ last_update_at' = last_update_at
        /\ (pc = "test") => test_buffer' = NewBuffer(TestBufferSize)
        /\ (env'.total_steps # env.total_steps) =>
            /\ stepped'.arg[1] = "index"
            /\ stepped'.q \in ActQValues
            /\ \A b \in Actions : stepped'.q[b + 1] <= stepped'.q[stepped'.arg[2] + 1]
      ]_vars

\* test() has finished an episode whose last action, of index 1, was chosen
\* from outputs that make it the only greedy one
C24_Witness ==
    /\ pc = "test_case"
    /\ test_i > 0
    /\ stepped = [arg |-> IndexArg(1), q |-> <<0, 1>>]
    /\ test_buffer.effect[last_idx].action = 1
====
